---- MODULE Spec2Model ----
(***************************************************************************)
(* A model of the SPF library asggo/spf: parsing a policy record into      *)
(* mechanisms (NewMechanism, parseMechanism, Valid, NewSPF), evaluating a  *)
(* record against a client address (SPF.Test, Mechanism.Evaluate) with the *)
(* recursion through include and redirect, and the entry point SPFTest.    *)
(*                                                                         *)
(* Go strings are modelled as sequences of one-character strings, so that  *)
(* strings.Index, slicing, strings.Fields and strings.HasPrefix are        *)
(* computed as the code computes them.  Go's 0-based positions are kept:   *)
(* Index returns -1 when the character does not occur.                     *)
(***************************************************************************)
EXTENDS Integers, Sequences, FiniteSets, TLC

(***************************************************************************)
(* Strings                                                                 *)
(***************************************************************************)

\* The empty Go string.
Empty == << >>

\* strings.Index(str, c) for a one-character c: 0-based, -1 if absent.
RECURSIVE IndexFrom(_, _, _)
IndexFrom(str, c, i) ==
    IF i > Len(str) THEN -1
    ELSE IF str[i] = c THEN i - 1
    ELSE IndexFrom(str, c, i + 1)

Index(str, c) == IndexFrom(str, c, 1)

\* The Go slice str[lo:hi] (0-based, hi exclusive).
Slice(str, lo, hi) == SubSeq(str, lo + 1, hi)

\* The Go slice str[lo:].
SliceFrom(str, lo) == SubSeq(str, lo + 1, Len(str))

\* strings.HasPrefix(str, p).
HasPrefix(str, p) == Len(str) >= Len(p) /\ SubSeq(str, 1, Len(p)) = p

\* strings.HasSuffix(str, p).
HasSuffix(str, p) ==
    Len(str) >= Len(p) /\ SubSeq(str, Len(str) - Len(p) + 1, Len(str)) = p

\* strings.Fields(str): the maximal runs of non-space characters, in order.
\* A field starts at a non-space character that follows a space or nothing,
\* and runs to the last character before the next space.
FieldStarts(str) ==
    {i \in 1..Len(str) : str[i] # " " /\ (i = 1 \/ str[i - 1] = " ")}

FieldEnd(str, i) ==
    CHOOSE j \in i..Len(str) :
        /\ j = Len(str) \/ str[j + 1] = " "
        /\ \A k \in i..j : str[k] # " "

FieldAt(str, i) == SubSeq(str, i, FieldEnd(str, i))

FieldsOf(str, starts) ==
    [k \in 1..Cardinality(starts) |->
        FieldAt(str, CHOOSE i \in starts : Cardinality({j \in starts : j < i}) = k - 1)]

Fields(str) == FieldsOf(str, FieldStarts(str))

\* strings.Split(str, c) for a one-character separator c.
RECURSIVE SplitFrom(_, _, _, _, _)
SplitFrom(str, c, i, cur, acc) ==
    IF i > Len(str) THEN Append(acc, cur)
    ELSE IF str[i] = c
         THEN SplitFrom(str, c, i + 1, Empty, Append(acc, cur))
         ELSE SplitFrom(str, c, i + 1, Append(cur, str[i]), acc)

Split(str, c) == SplitFrom(str, c, 1, Empty, << >>)

\* The words of the record grammar, spelled out as Go strings.
STR_all      == <<"a", "l", "l">>
STR_a        == <<"a">>
STR_mx       == <<"m", "x">>
STR_ip4      == <<"i", "p", "4">>
STR_ip6      == <<"i", "p", "6">>
STR_exists   == <<"e", "x", "i", "s", "t", "s">>
STR_include  == <<"i", "n", "c", "l", "u", "d", "e">>
STR_ptr      == <<"p", "t", "r">>
STR_redirect == <<"r", "e", "d", "i", "r", "e", "c", "t">>
STR_vspf1    == <<"v", "=", "s", "p", "f", "1">>
STR_vEq      == <<"v", "=">>

(***************************************************************************)
(* Results and errors                                                      *)
(***************************************************************************)

Pass      == "Pass"
Neutral   == "Neutral"
Fail      == "Fail"
SoftFail  == "SoftFail"
None      == "None"
TempError == "TempError"
PermError == "PermError"

Results == {Pass, Neutral, Fail, SoftFail, None, TempError, PermError}

\* The error values; Nil is Go's nil error.
Nil                 == "nil"
ErrNoMatch          == "ErrNoMatch"
ErrInvalidMechanism == "ErrInvalidMechanism"
ErrInvalidSPF       == "ErrInvalidSPF"
ErrIncludeLoop      == "ErrIncludeLoop"
ErrFailedLookup     == "ErrFailedLookup"
ErrNoRecord         == "ErrNoRecord"
ErrMaxCount         == "ErrMaxCount"
ErrEmailFormat      == "ErrEmailFormat"

(***************************************************************************)
(* Mechanisms: parsing                                                     *)
(***************************************************************************)

\* The zero value of the Mechanism struct.
ZeroMechanism ==
    [Name |-> Empty, Domain |-> Empty, Prefix |-> Empty, Result |-> "", Count |-> 0]

\* A parsed mechanism and a nil error.
Parsed(r, n, d, p) ==
    [m |-> [Name |-> n, Domain |-> d, Prefix |-> p, Result |-> r, Count |-> 0],
     err |-> Nil]

\* A failed parse: the zero Mechanism and ErrInvalidMechanism.
NotParsed == [m |-> ZeroMechanism, err |-> ErrInvalidMechanism]

\* The switch of parseMechanism, given the positions ci, pi and ei of the
\* first ':', '/' and '=' of str.
parseSwitch(r, str, domain, ci, pi, ei) ==
    IF ei # -1
    THEN IF SliceFrom(str, ei + 1) = Empty
         THEN NotParsed
         ELSE Parsed(r, Slice(str, 0, ei), SliceFrom(str, ei + 1), Empty)
    ELSE IF ci # -1 /\ pi # -1 /\ ci < pi
    THEN IF Slice(str, ci + 1, pi) = Empty \/ SliceFrom(str, pi + 1) = Empty
         THEN NotParsed
         ELSE Parsed(r, Slice(str, 0, ci), Slice(str, ci + 1, pi), SliceFrom(str, pi + 1))
    ELSE IF ci # -1
    THEN IF SliceFrom(str, ci + 1) = Empty
         THEN NotParsed
         ELSE Parsed(r, Slice(str, 0, ci), SliceFrom(str, ci + 1), Empty)
    ELSE IF pi # -1
    THEN IF SliceFrom(str, pi + 1) = Empty
         THEN NotParsed
         ELSE Parsed(r, Slice(str, 0, pi), domain, SliceFrom(str, pi + 1))
    ELSE Parsed(r, str, domain, Empty)

\* A parse that has no default for the domain.
parseMechanism_NoDefault(r, str, domain) ==
    parseSwitch(r, str, Empty, Index(str, ":"), Index(str, "/"), Index(str, "="))

\* parseMechanism(r, str, domain): the pair (Mechanism, error).
parseMechanism(r, str, domain) ==
    parseSwitch(r, str, domain, Index(str, ":"), Index(str, "/"), Index(str, "="))

\* A mapping of the sigils that takes '~' for '-'.
SigilResult_TildeFail(c) ==
    IF c = "-" \/ c = "~" THEN Fail
    ELSE IF c = "+" THEN Pass
    ELSE IF c = "?" THEN Neutral
    ELSE Pass

\* The Result that the first character of a mechanism text selects.
SigilResult(c) ==
    IF c = "-" THEN Fail
    ELSE IF c = "~" THEN SoftFail
    ELSE IF c = "+" THEN Pass
    ELSE IF c = "?" THEN Neutral
    ELSE Pass

\* The mechanism text without its sigil, if it has one.
SigilRest(str) ==
    IF str[1] \in {"-", "~", "+", "?"} THEN SliceFrom(str, 1) ELSE str

\* NewMechanism(str, domain): the qualifier sigil selects the Result.
\* str is never empty: the callers pass a field of strings.Fields.
NewMechanism_KeepsSigil(str, domain) ==
    parseMechanism(SigilResult(str[1]), str, domain)

NewMechanism(str, domain) ==
    parseMechanism(SigilResult(str[1]), SigilRest(str), domain)

(***************************************************************************)
(* Addresses and networks (Go's package net)                               *)
(***************************************************************************)

\* A nil net.IP or *net.IPNet.
NilIP == << >>

DecDigits == <<"0", "1", "2", "3", "4", "5", "6", "7", "8", "9">>
HexLower  == <<"0", "1", "2", "3", "4", "5", "6", "7", "8", "9",
               "a", "b", "c", "d", "e", "f">>
HexUpper  == <<"0", "1", "2", "3", "4", "5", "6", "7", "8", "9",
               "A", "B", "C", "D", "E", "F">>

\* The value of a decimal digit, -1 for any other character.
DecVal(c) == Index(DecDigits, c)

\* The value of a hexadecimal digit, -1 for any other character.
HexVal(c) == IF Index(HexLower, c) # -1 THEN Index(HexLower, c) ELSE Index(HexUpper, c)

\* net's ceiling for a parsed number: dtoi and xtoi fail at big = 0xFFFFFF.
big == 255 * 65536 + 65535

\* dtoi(s): the leading decimal number of s, the count of characters read, ok.
RECURSIVE dtoiFrom(_, _, _)
dtoiFrom(s, i, n) ==
    IF i < Len(s) /\ DecVal(s[i + 1]) # -1
    THEN IF n * 10 + DecVal(s[i + 1]) >= big
         THEN [n |-> big, i |-> i, ok |-> FALSE]
         ELSE dtoiFrom(s, i + 1, n * 10 + DecVal(s[i + 1]))
    ELSE IF i = 0 THEN [n |-> 0, i |-> 0, ok |-> FALSE]
    ELSE [n |-> n, i |-> i, ok |-> TRUE]

dtoi(s) == dtoiFrom(s, 0, 0)

\* xtoi(s): the leading hexadecimal number of s, the count read, ok.
RECURSIVE xtoiFrom(_, _, _)
xtoiFrom(s, i, n) ==
    IF i < Len(s) /\ HexVal(s[i + 1]) # -1
    THEN IF n * 16 + HexVal(s[i + 1]) >= big
         THEN [n |-> 0, i |-> i, ok |-> FALSE]
         ELSE xtoiFrom(s, i + 1, n * 16 + HexVal(s[i + 1]))
    ELSE IF i = 0 THEN [n |-> 0, i |-> i, ok |-> FALSE]
    ELSE [n |-> n, i |-> i, ok |-> TRUE]

xtoi(s) == xtoiFrom(s, 0, 0)

\* The four bytes of a dotted-quad literal, or NilIP: field i of the loop of
\* parseIPv4, with the bytes p read so far.
RECURSIVE parseIPv4Bytes(_, _, _)
RECURSIVE parseIPv4Field(_, _, _, _)
parseIPv4Field(t, i, p, d) ==
    IF ~d.ok \/ d.n > 255 THEN NilIP
    ELSE IF d.i > 1 /\ t[1] = "0" THEN NilIP
    ELSE parseIPv4Bytes(SliceFrom(t, d.i), i + 1, Append(p, d.n))

parseIPv4Rest(t, i, p) == parseIPv4Field(t, i, p, dtoi(t))

parseIPv4Bytes(s, i, p) ==
    IF i = 4 THEN (IF Len(s) # 0 THEN NilIP ELSE p)
    ELSE IF Len(s) = 0 THEN NilIP
    ELSE IF i > 0 /\ s[1] # "." THEN NilIP
    ELSE parseIPv4Rest(IF i > 0 THEN SliceFrom(s, 1) ELSE s, i, p)

\* The prefix of an IPv4 address in its 16-byte form.
v4InV6Prefix == <<0, 0, 0, 0, 0, 0, 0, 0, 0, 0, 255, 255>>

\* net.IPv4(a, b, c, d): the 16-byte form of an IPv4 address.
IPv4(p) == v4InV6Prefix \o p

\* The 16-byte form of four bytes, NilIP for NilIP.
IPv4OrNil(p) == IF p = NilIP THEN NilIP ELSE IPv4(p)

\* parseIPv4(s): a 16-byte IP or NilIP.
parseIPv4(s) == IPv4OrNil(parseIPv4Bytes(s, 0, << >>))

\* ip.To4(): the 4-byte form of an IPv4 address, NilIP for any other.
To4(ip) ==
    IF Len(ip) = 4 THEN ip
    ELSE IF Len(ip) = 16 /\ SubSeq(ip, 1, 12) = v4InV6Prefix
         THEN SubSeq(ip, 13, 16)
    ELSE NilIP

\* n zero bytes.
Zeros(n) == [k \in 1..n |-> 0]

\* The end of parseIPv6: the whole string must be used, and a short address
\* is filled with zero groups at the ellipsis.
parseIPv6Finish(s, ip, ellipsis) ==
    IF Len(s) # 0 THEN NilIP
    ELSE IF Len(ip) < 16
         THEN IF ellipsis < 0 THEN NilIP
              ELSE SubSeq(ip, 1, ellipsis) \o Zeros(16 - Len(ip))
                       \o SubSeq(ip, ellipsis + 1, Len(ip))
    ELSE IF ellipsis >= 0 THEN NilIP
    ELSE ip

\* The loop of parseIPv6: hexadecimal groups separated by colons, with an
\* optional trailing dotted quad.  ip holds the bytes parsed so far.
RECURSIVE parseIPv6Loop(_, _, _)

\* After a group: the end of the string, or a colon and more, or an ellipsis.
parseIPv6Sep(s2, ip2, ellipsis) ==
    IF Len(s2) = 0 THEN parseIPv6Finish(s2, ip2, ellipsis)
    ELSE IF s2[1] # ":" \/ Len(s2) = 1 THEN NilIP
    ELSE IF s2[2] = ":"
         THEN IF ellipsis >= 0 THEN NilIP
              ELSE parseIPv6Loop(SliceFrom(s2, 2), ip2, Len(ip2))
         ELSE parseIPv6Loop(SliceFrom(s2, 1), ip2, ellipsis)

\* A trailing dotted quad, whose four bytes ip4 end the address.
parseIPv6Quad(ip, ip4, ellipsis) ==
    IF ip4 = NilIP THEN NilIP ELSE parseIPv6Finish(Empty, ip \o ip4, ellipsis)

\* A group x = xtoi(s) at the head of s.
parseIPv6Group(s, ip, ellipsis, x) ==
    IF ~x.ok \/ x.n > 65535 THEN NilIP
    ELSE IF x.i < Len(s) /\ s[x.i + 1] = "."
    THEN IF ellipsis < 0 /\ Len(ip) # 12 THEN NilIP
         ELSE IF Len(ip) + 4 > 16 THEN NilIP
         ELSE parseIPv6Quad(ip, parseIPv4Bytes(s, 0, << >>), ellipsis)
    ELSE parseIPv6Sep(SliceFrom(s, x.i), ip \o <<x.n \div 256, x.n % 256>>, ellipsis)

parseIPv6Loop(s, ip, ellipsis) ==
    IF Len(ip) >= 16 \/ Len(s) = 0 THEN parseIPv6Finish(s, ip, ellipsis)
    ELSE parseIPv6Group(s, ip, ellipsis, xtoi(s))

\* parseIPv6(s): a 16-byte IP or NilIP.
parseIPv6(s) ==
    IF Len(s) >= 2 /\ s[1] = ":" /\ s[2] = ":"
    THEN IF Len(s) = 2 THEN Zeros(16)
         ELSE parseIPv6Loop(SliceFrom(s, 2), << >>, 0)
    ELSE parseIPv6Loop(s, << >>, -1)

\* net.ParseIP(s): the first '.' or ':' of s selects the family.
RECURSIVE ParseIPFrom(_, _)
ParseIPFrom(s, i) ==
    IF i > Len(s) THEN NilIP
    ELSE IF s[i] = "." THEN parseIPv4(s)
    ELSE IF s[i] = ":" THEN parseIPv6(s)
    ELSE ParseIPFrom(s, i + 1)

ParseIP(s) == ParseIPFrom(s, 1)

\* 2^k for 0 <= k <= 8.
Pow2(k) == <<1, 2, 4, 8, 16, 32, 64, 128, 256>>[k + 1]

\* net.CIDRMask(ones, bits): bits/8 bytes whose leading ones bits are set.
CIDRMask(ones, bits) ==
    [k \in 1..(bits \div 8) |->
        IF ones >= 8 * k THEN 255
        ELSE IF ones <= 8 * (k - 1) THEN 0
        ELSE 256 - Pow2(8 * k - ones)]

\* The bitwise and of a byte with a byte of a CIDR mask.
AndMask(x, mb) == x - (x % (256 - mb))

\* ip.Mask(mask): the address with the mask applied, in the mask's length
\* where the address is IPv4.
Mask(ip, mask) ==
    LET ip1 == IF Len(mask) = 4 /\ Len(ip) = 16 /\ SubSeq(ip, 1, 12) = v4InV6Prefix
               THEN SubSeq(ip, 13, 16)
               ELSE ip
    IN  IF Len(ip1) # Len(mask) THEN NilIP
        ELSE [k \in 1..Len(ip1) |-> AndMask(ip1[k], mask[k])]

\* A nil *net.IPNet.
NilNet == [IP |-> NilIP, Mask |-> NilIP]

\* No network and an error.
NoNetwork == [network |-> NilNet, err |-> TRUE]

\* The network of the address ip of iplen bytes under the mask length d = dtoi(mask).
CIDRNetwork(ip, iplen, mask, d) ==
    IF ip = NilIP \/ ~d.ok \/ d.i # Len(mask) \/ d.n > 8 * iplen THEN NoNetwork
    ELSE [network |-> [IP |-> Mask(ip, CIDRMask(d.n, 8 * iplen)),
                       Mask |-> CIDRMask(d.n, 8 * iplen)],
          err |-> FALSE]

\* The address of ParseCIDR: IPv4 if ip4 = parseIPv4(addr) is an address,
\* IPv6 otherwise.
CIDRAddr(addr, mask, ip4) ==
    IF ip4 # NilIP THEN CIDRNetwork(ip4, 4, mask, dtoi(mask))
    ELSE CIDRNetwork(parseIPv6(addr), 16, mask, dtoi(mask))

\* ParseCIDR of a text whose first '/' is at i.
CIDRSplit(s, i) ==
    IF i < 0 THEN NoNetwork
    ELSE CIDRAddr(Slice(s, 0, i), SliceFrom(s, i + 1), parseIPv4(Slice(s, 0, i)))

\* net.ParseCIDR(s): the pair (network, error); err is TRUE on failure.
ParseCIDR(s) == CIDRSplit(s, Index(s, "/"))

\* networkNumberAndMask(n): the address nn of the network, 4 bytes if IPv4.
networkNumber(network, n4) ==
    IF n4 # NilIP THEN n4
    ELSE IF Len(network.IP) = 16 THEN network.IP ELSE NilIP

\* networkNumberAndMask(n): the mask in the length of the address nn.
networkMask(network, nn) ==
    IF nn = NilIP THEN NilIP
    ELSE IF Len(network.Mask) = 4
         THEN IF Len(nn) = 4 THEN network.Mask ELSE NilIP
    ELSE IF Len(network.Mask) = 16
         THEN IF Len(nn) = 4 THEN SubSeq(network.Mask, 13, 16) ELSE network.Mask
    ELSE NilIP

\* Contains, given the network number nn, the mask m and the address x.
ContainsMasked(nn, m, x) ==
    IF m = NilIP THEN FALSE
    ELSE /\ Len(x) = Len(nn)
         /\ \A k \in 1..Len(x) : AndMask(nn[k], m[k]) = AndMask(x[k], m[k])

\* The 4-byte form x4 = To4(ip) of an address if it has one.
Shortest(ip, x4) == IF x4 # NilIP THEN x4 ELSE ip

ContainsNumber(network, nn, ip) ==
    ContainsMasked(nn, networkMask(network, nn), Shortest(ip, To4(ip)))

\* (*IPNet).Contains(ip).
Contains(network, ip) ==
    ContainsNumber(network, networkNumber(network, To4(network.IP)), ip)

\* The prefix that networkCIDR uses for an empty prefix and the address ip.
FullPrefix(ip) == IF To4(ip) # NilIP THEN <<"3", "2">> ELSE <<"1", "2", "8">>

\* networkCIDR(addr, prefix): the network of addr/prefix; an empty prefix
\* stands for the full width of the address family.
networkCIDR(addr, prefix) ==
    ParseCIDR(addr \o <<"/">> \o (IF prefix = Empty THEN FullPrefix(ParseIP(addr)) ELSE prefix))

\* ipInNetworks(client, networks).
ipInNetworks(client, networks) ==
    \E k \in 1..Len(networks) : Contains(networks[k], client)

\* buildNetworks(ips, prefix): the networks that parse, in order.
NetworkIfAny(r) == IF r.err THEN << >> ELSE <<r.network>>

RECURSIVE buildNetworks(_, _)
buildNetworks(ips, prefix) ==
    IF ips = << >> THEN << >>
    ELSE NetworkIfAny(networkCIDR(Head(ips), prefix)) \o buildNetworks(Tail(ips), prefix)

(***************************************************************************)
(* Mechanisms: validity                                                    *)
(***************************************************************************)

MechanismNames ==
    {STR_all, STR_a, STR_mx, STR_ip4, STR_ip6, STR_exists, STR_include, STR_ptr,
     STR_redirect}

\* A validity that does not look at the name.
Valid_AnyName(m) ==
    /\ m.Result \in {Pass, Fail, SoftFail, Neutral}
    /\ (m.Name = STR_ip4 \/ m.Name = STR_ip6) => ParseIP(m.Domain) # NilIP

\* (*Mechanism).Valid().
Valid(m) ==
    LET hasResult == m.Result \in {Pass, Fail, SoftFail, Neutral}
        hasName   == m.Name \in MechanismNames
        isIP      == IF m.Name = STR_ip4 \/ m.Name = STR_ip6
                     THEN ParseIP(m.Domain) # NilIP
                     ELSE TRUE
    IN  hasResult /\ hasName /\ isIP

(***************************************************************************)
(* Mechanisms and records: rendering                                       *)
(***************************************************************************)

\* (*Mechanism).ResultTag().
ResultTag(m) ==
    IF m.Result = Fail THEN <<"-">>
    ELSE IF m.Result = SoftFail THEN <<"~">>
    ELSE IF m.Result = Pass THEN <<"+">>
    ELSE IF m.Result = Neutral THEN <<"?">>
    ELSE <<"+">>

\* The default case of (*Mechanism).SPFString(), given the tag.
SPFStringDefault(m, tag) ==
    (IF tag # <<"+">> THEN tag ELSE Empty)
        \o m.Name
        \o (IF Len(m.Domain) # 0 THEN <<":">> \o m.Domain ELSE Empty)
        \o (IF Len(m.Prefix) # 0 THEN <<"/">> \o m.Prefix ELSE Empty)

\* (*Mechanism).SPFString().
MechanismSPFString(m) ==
    IF m.Name = STR_redirect THEN m.Name \o <<"=">> \o m.Domain
    ELSE IF m.Name = STR_all THEN ResultTag(m) \o m.Name
    ELSE SPFStringDefault(m, ResultTag(m))

\* The loop of (*SPF).SPFString() over the first k mechanisms.
RECURSIVE SPFStringLoop(_, _)
SPFStringLoop(s, k) ==
    IF k = 0 THEN STR_vEq \o s.Version
    ELSE SPFStringLoop(s, k - 1) \o <<" ">> \o MechanismSPFString(s.Mechanisms[k])

\* (*SPF).SPFString().
SPFString(s) == SPFStringLoop(s, Len(s.Mechanisms))

(***************************************************************************)
(* The resolver: the answers of the name service, fixed for one behaviour  *)
(***************************************************************************)

VARIABLES
    txt,     \* domain -> answer of the TXT lookup: [err, records]
    net,     \* the answers of the host, MX and reverse lookups
    pc,      \* "idle", "eval" or "done": where the current request stands
    req,     \* the request being served
    stack,   \* the calls of SPF.Test in progress, innermost last
    builds,  \* the records built for the request so far, in call order
    ret      \* what the request returned: [result, err]

vars == <<txt, net, pc, req, stack, builds, ret>>

\* net.LookupTXT(domain).
LookupTXT(domain) ==
    IF domain \in DOMAIN txt THEN txt[domain] ELSE [err |-> TRUE, records |-> << >>]

\* The first text record that carries the version marker, or Empty.
RECURSIVE FirstSPFText(_)
FirstSPFText(records) ==
    IF records = << >> THEN Empty
    ELSE IF HasPrefix(Head(records), STR_vspf1) THEN Head(records)
    ELSE FirstSPFText(Tail(records))

\* The record text of a domain, given the answer a of its TXT lookup: the
\* pair (record, error).
SPFRecordOf(a) ==
    IF a.err THEN [record |-> Empty, err |-> ErrFailedLookup]
    ELSE IF FirstSPFText(a.records) = Empty
         THEN [record |-> Empty, err |-> ErrNoRecord]
    ELSE [record |-> FirstSPFText(a.records), err |-> Nil]

getSPFRecord(domain) == SPFRecordOf(LookupTXT(domain))

\* net.LookupHost(name): [err, addrs].  A name without addresses is an
\* error of the lookup ("no such host"), as is a failed query.
LookupHost(name) ==
    IF net = "fail" THEN [err |-> TRUE, addrs |-> << >>]
    ELSE IF net = "empty" THEN [err |-> TRUE, addrs |-> << >>]
    ELSE [err |-> FALSE, addrs |-> << <<"1", ".", "2", ".", "3", ".", "4">> >>]

\* net.LookupMX(name): [err, hosts].
LookupMX(name) ==
    IF net = "fail" THEN [err |-> TRUE, hosts |-> << >>]
    ELSE IF net = "empty" THEN [err |-> FALSE, hosts |-> << >>]
    ELSE [err |-> FALSE, hosts |-> << <<"M">> >>]

\* net.LookupAddr(ip): [err, names].
LookupAddr(ip) ==
    IF net = "fail" THEN [err |-> TRUE, names |-> << >>]
    ELSE IF net = "empty" THEN [err |-> FALSE, names |-> << >>]
    ELSE [err |-> FALSE, names |-> << <<"h", ".", "A">> >>]

(***************************************************************************)
(* Records: construction                                                   *)
(***************************************************************************)

\* The ceiling of the lookup count.
MaxLookups == 10

\* The mechanisms whose evaluation may need a name lookup.
IsLookupMechanism(name) ==
    name \in {STR_a, STR_mx, STR_ptr, STR_exists, STR_include, STR_redirect}

\* The running lookup count after mechanism m joins the record.
CountMechanism(count, m) ==
    IF IsLookupMechanism(m.Name) THEN count + 1 ELSE count

\* The loop of NewSPF over the fields of the record text, from field k on.
\* On an error the record built so far is returned with the error.
RECURSIVE NewSPFLoop(_, _, _)

\* The field k is a mechanism text, and r = NewMechanism of it.
NewSPFField_NoLoopCheck(spf, fields, k, r) ==
    IF r.err # Nil \/ ~Valid(r.m)
    THEN [spf |-> spf, err |-> ErrInvalidMechanism]
    ELSE NewSPFLoop([spf EXCEPT !.Mechanisms = Append(@, r.m),
                                !.Count = CountMechanism(@, r.m)],
                    fields, k + 1)

NewSPFField(spf, fields, k, r) ==
    IF r.err # Nil \/ ~Valid(r.m)
    THEN [spf |-> spf, err |-> ErrInvalidMechanism]
    ELSE IF r.m.Name = STR_include /\ r.m.Domain = spf.Domain
    THEN [spf |-> spf, err |-> ErrIncludeLoop]
    ELSE NewSPFLoop([spf EXCEPT !.Mechanisms = Append(@, r.m),
                                !.Count = CountMechanism(@, r.m)],
                    fields, k + 1)

NewSPFLoop(spf, fields, k) ==
    IF k > Len(fields) THEN [spf |-> spf, err |-> Nil]
    ELSE IF HasPrefix(fields[k], STR_vEq)
    THEN NewSPFLoop([spf EXCEPT !.Version = SliceFrom(fields[k], 2)], fields, k + 1)
    ELSE NewSPFField(spf, fields, k, NewMechanism(fields[k], spf.Domain))

\* A check that lets a lookup count of exactly the ceiling pass.
CheckMaxCount_Above(b) ==
    IF b.err = Nil /\ b.spf.Count > MaxLookups
    THEN [spf |-> b.spf, err |-> ErrMaxCount]
    ELSE b

\* The check of the lookup count that ends a build.
CheckMaxCount(b) ==
    IF b.err = Nil /\ b.spf.Count >= MaxLookups
    THEN [spf |-> b.spf, err |-> ErrMaxCount]
    ELSE b

\* The record before its text is parsed.
EmptySPF(domain, record, count) ==
    [Raw |-> record, Domain |-> domain, Version |-> Empty, Mechanisms |-> << >>,
     Count |-> count]

\* NewSPF once the record text g = (record, err) is at hand.
NewSPFText(domain, g, count) ==
    IF g.err # Nil THEN [spf |-> EmptySPF(domain, g.record, count), err |-> g.err]
    ELSE IF ~HasPrefix(g.record, STR_vspf1)
         THEN [spf |-> EmptySPF(domain, g.record, count), err |-> ErrInvalidSPF]
    ELSE CheckMaxCount(NewSPFLoop(EmptySPF(domain, g.record, count), Fields(g.record), 1))

\* NewSPF(domain, record, count): the pair (record, error).  An empty record
\* text is looked up first.
NewSPF(domain, record, count) ==
    NewSPFText(domain,
               IF record = Empty THEN getSPFRecord(domain)
               ELSE [record |-> record, err |-> Nil],
               count)

(***************************************************************************)
(* Evaluation                                                              *)
(***************************************************************************)

\* aNetworks(m): the networks of the addresses of m.Domain; a failed lookup
\* gives no addresses.
aNetworks(m) == buildNetworks(LookupHost(m.Domain).addrs, m.Prefix)

\* mxNetworks(m): the networks of the addresses of the mail exchangers.
RECURSIVE mxNetworksOf(_, _)
mxNetworksOf(hosts, prefix) ==
    IF hosts = << >> THEN << >>
    ELSE buildNetworks(LookupHost(Head(hosts)).addrs, prefix)
             \o mxNetworksOf(Tail(hosts), prefix)

mxNetworks(m) == mxNetworksOf(LookupMX(m.Domain).hosts, m.Prefix)

\* A reverse lookup whose failure counts as a name that fits.
PTRNames_ErrMatches(m, a) ==
    IF a.err THEN TRUE
    ELSE \E k \in 1..Len(a.names) : HasSuffix(a.names[k], m.Domain)

\* testPTR(m, ip): some name of the client ends with m.Domain.
PTRNames(m, a) ==
    IF a.err THEN FALSE
    ELSE \E k \in 1..Len(a.names) : HasSuffix(a.names[k], m.Domain)

testPTR(m, ip) == PTRNames(m, LookupAddr(ip))

\* No record was built.
NoBuild == [spf |-> [Raw |-> Empty, Domain |-> Empty, Version |-> Empty,
                     Mechanisms |-> << >>, Count |-> 0],
            err |-> "none"]

\* What Evaluate does: it returns (result, err), or it calls Test on the
\* record b.spf it has built and goes on in EvaluateAfter.
Returns(result, err, b) == [kind |-> "ret", result |-> result, err |-> err, b |-> b]
CallsTest(b) == [kind |-> "call", result |-> "", err |-> Nil, b |-> b]

\* Evaluate returns None and ErrNoMatch: the mechanism does not cover the client.
NoMatch == Returns(None, ErrNoMatch, NoBuild)

\* The mechanism's own result if it covers the client.
Covers(m, covered) == IF covered THEN Returns(m.Result, Nil, NoBuild) ELSE NoMatch

\* A redirect that answers PermError for every error of NewSPF.
EvaluateRedirect_AllPermError(b) ==
    IF b.err = Nil THEN CallsTest(b)
    ELSE Returns(PermError, Nil, b)

\* case "redirect", with b = NewSPF(m.Domain, "", count).
EvaluateRedirect(b) ==
    IF b.err = Nil THEN CallsTest(b)
    ELSE IF b.err = ErrFailedLookup THEN Returns(TempError, Nil, b)
    ELSE Returns(PermError, Nil, b)

\* An include that answers TempError when the lookup of its record fails.
EvaluateInclude_TempError(b) ==
    IF b.err = ErrNoRecord \/ b.err = ErrMaxCount THEN Returns(PermError, Nil, b)
    ELSE IF b.err = ErrFailedLookup THEN Returns(TempError, Nil, b)
    ELSE CallsTest(b)

\* case "include", with b = NewSPF(m.Domain, "", count): Test is called on
\* the record of b unless the error is ErrNoRecord or ErrMaxCount.
EvaluateInclude(b) ==
    IF b.err = ErrNoRecord \/ b.err = ErrMaxCount THEN Returns(PermError, Nil, b)
    ELSE CallsTest(b)

\* default: the network n = networkCIDR(m.Domain, m.Prefix).
EvaluateNetwork(m, n, parsedIP) ==
    Covers(m, ~n.err /\ Contains(n.network, parsedIP))

\* (*Mechanism).Evaluate(ip, count), up to its call of Test.
Evaluate(m, ip, count) ==
    IF m.Name = STR_all THEN Returns(m.Result, Nil, NoBuild)
    ELSE IF m.Name = STR_exists THEN Covers(m, ~LookupHost(m.Domain).err)
    ELSE IF m.Name = STR_redirect THEN EvaluateRedirect(NewSPF(m.Domain, Empty, count))
    ELSE IF m.Name = STR_include THEN EvaluateInclude(NewSPF(m.Domain, Empty, count))
    ELSE IF m.Name = STR_a THEN Covers(m, ipInNetworks(ParseIP(ip), aNetworks(m)))
    ELSE IF m.Name = STR_mx THEN Covers(m, ipInNetworks(ParseIP(ip), mxNetworks(m)))
    ELSE IF m.Name = STR_ptr THEN Covers(m, testPTR(m, ip))
    ELSE EvaluateNetwork(m, networkCIDR(m.Domain, m.Prefix), ParseIP(ip))

\* An include that also matches when the included record answers Fail.
EvaluateAfter_FailMatches(m, result) ==
    IF m.Name = STR_redirect THEN [result |-> result, err |-> Nil]
    ELSE IF result = Pass \/ result = PermError \/ result = Fail
    THEN [result |-> result, err |-> Nil]
    ELSE [result |-> None, err |-> ErrNoMatch]

\* (*Mechanism).Evaluate after its call of Test returned result.
EvaluateAfter(m, result) ==
    IF m.Name = STR_redirect THEN [result |-> result, err |-> Nil]
    ELSE IF result = Pass \/ result = PermError THEN [result |-> result, err |-> Nil]
    ELSE [result |-> None, err |-> ErrNoMatch]

\* A call of (*SPF).Test(ip) on the record of the build b: the record, the
\* error berr that NewSPF returned with it, the index i of the mechanism that
\* is evaluated next, the result res once the call has one ("" before), and
\* log, the outcomes of Evaluate so far.
NewFrame(b) == [spf |-> b.spf, berr |-> b.err, i |-> 1, res |-> "", log |-> << >>]

\* A loop that counts the mechanisms it has passed in the record's lookup
\* count.
TestLoop_CountsInRecord(f, result, err) ==
    IF err = Nil THEN [f EXCEPT !.res = result]
    ELSE [f EXCEPT !.i = @ + 1, !.spf.Count = @ + 1]

\* A loop that returns the result of the first mechanism that does not match.
TestLoop_OnError(f, result, err) ==
    IF err # Nil THEN [f EXCEPT !.res = result]
    ELSE [f EXCEPT !.i = @ + 1]

\* The loop of Test when Evaluate has returned (result, err) for mechanism i.
TestLoop(f, result, err) ==
    IF err = Nil THEN [f EXCEPT !.res = result]
    ELSE [f EXCEPT !.i = @ + 1]

\* An end of the loop that answers None.
TestDefault_None(f) == [f EXCEPT !.res = None]

\* The end of the loop of Test: no mechanism matched.
TestDefault(f) == [f EXCEPT !.res = Neutral]

\* The frame f with the outcome (result, err) of Evaluate for its mechanism i
\* logged, with the error suberr of the build that Evaluate made ("none" if
\* it made none) and the result sub of the Test that it called ("" if none).
Logged(f, result, err, suberr, sub) ==
    [f EXCEPT !.log = Append(@, [i |-> f.i, result |-> result, err |-> err,
                                 suberr |-> suberr, sub |-> sub])]

\* The entry of builds for the outcome b of NewSPF with the inherited count.
BuildEntry(b, count) ==
    [domain |-> b.spf.Domain, inherited |-> count, err |-> b.err,
     count |-> b.spf.Count, depth |-> Len(stack)]

\* A lookup count kept in one place for all requests: the count of the
\* record that was built last.
TestCount_Ambient(spf) ==
    IF builds = << >> THEN spf.Count ELSE builds[Len(builds)].count

\* The lookup count that Test hands to Evaluate: the count of its record.
TestCount(spf) == spf.Count

\* SPFTest once the record b is built.
SPFTestBuilt(b) ==
    IF b.err # Nil THEN Returns(PermError, b.err, b) ELSE CallsTest(b)

\* An SPFTest that takes a domain without a record for a malformed one.
SPFTestAnswer_NoRecordPermError(domain, a) ==
    IF a.err THEN Returns(TempError, ErrFailedLookup, NoBuild)
    ELSE IF FirstSPFText(a.records) = Empty THEN Returns(PermError, Nil, NoBuild)
    ELSE SPFTestBuilt(NewSPF(domain, FirstSPFText(a.records), 0))

\* SPFTest once the TXT lookup of the domain has answered a.
SPFTestAnswer(domain, a) ==
    IF a.err THEN Returns(TempError, ErrFailedLookup, NoBuild)
    ELSE IF FirstSPFText(a.records) = Empty THEN Returns(None, Nil, NoBuild)
    ELSE SPFTestBuilt(NewSPF(domain, FirstSPFText(a.records), 0))

\* SPFTest for the domain part of the address.
SPFTestDomain(domain) == SPFTestAnswer(domain, LookupTXT(domain))

\* SPFTest(ip, email) up to its call of Test.
SPFTest(ip, email) ==
    IF Index(email, "@") = -1 THEN Returns("", ErrEmailFormat, NoBuild)
    ELSE SPFTestDomain(Split(email, "@")[2])

(***************************************************************************)
(* The inputs: record texts, zones, clients                                *)
(***************************************************************************)

\* The longest chain of nested calls of Test that a behaviour follows.
MaxDepth == 12

\* The largest lookup count handed to a direct call of NewSPF.
MaxInherit == 10

\* The largest number of lookup mechanisms in a generated record text.
MaxLookupMechs == 10

DomA == <<"A">>
DomB == <<"B">>
DomC == <<"C">>
Domains == {DomA, DomB, DomC}

IP1 == <<"1", ".", "2", ".", "3", ".", "4">>
IP2 == <<"9", ".", "9", ".", "9", ".", "9">>
IPs == {IP1, IP2}

\* Mechanism texts.
Q(sigil, tok) == <<sigil>> \o tok
WithDomain(name, d) == name \o <<":">> \o d
Incl(d)  == WithDomain(STR_include, d)
Redir(d) == STR_redirect \o <<"=">> \o d
Ip4(a)   == WithDomain(STR_ip4, a)
Bogus    == <<"-", "n", "o", "n", "e">>

\* The record text with the given mechanism texts.
RECURSIVE Rec(_)
Rec(toks) ==
    IF toks = << >> THEN STR_vspf1
    ELSE Rec(SubSeq(toks, 1, Len(toks) - 1)) \o <<" ">> \o toks[Len(toks)]

\* n copies of the mechanism text tok.
Copies(n, tok) == [k \in 1..n |-> tok]

\* Answers of the TXT lookup.
TxtFail      == [err |-> TRUE, records |-> << >>]
TxtOther     == [err |-> FALSE, records |-> << <<"x", "=", "1">> >>]
TxtOf(toks)  == [err |-> FALSE, records |-> <<Rec(toks)>>]
TxtSecond(toks) == [err |-> FALSE, records |-> << <<"x", "=", "1">>, Rec(toks) >>]

\* The zones: what the TXT lookup of each domain may answer.
PoolA ==
    { TxtFail, TxtOther,
      TxtOf(<< >>),
      TxtOf(<<Ip4(IP1), Q("-", STR_all)>>),
      TxtOf(<<Incl(DomB), Q("-", STR_all)>>),
      TxtOf(<<Q("-", Incl(DomB)), Incl(DomC), Q("~", STR_all)>>),
      TxtOf(<<Redir(DomB), Q("-", STR_all)>>),
      TxtOf(<<Redir(DomA)>>),
      TxtOf(<<Q("-", STR_all), Incl(DomA)>>),
      TxtOf(<<Q("?", Ip4(IP2)), Bogus>>),
      TxtOf(<<STR_a, STR_mx, STR_ptr, WithDomain(STR_exists, DomB), Q("-", Ip4(IP2))>>),
      TxtOf(Copies(8, Q("~", STR_a)) \o <<Incl(DomB)>>),
      TxtOf(Copies(10, STR_mx)) }

PoolB ==
    { TxtFail, TxtOther,
      TxtSecond(<<Ip4(IP1)>>),
      TxtOf(<<Q("-", STR_all)>>),
      TxtOf(<<Q("~", STR_all)>>),
      TxtOf(<<Incl(DomA)>>),
      TxtOf(<<Q("+", STR_all), Bogus>>),
      TxtOf(<<Redir(DomC)>>),
      TxtOf(<<Incl(DomC), Bogus>>),
      TxtOf(<<Incl(DomC), Incl(DomB)>>),
      TxtOf(Copies(5, STR_ptr)) }

PoolC ==
    { TxtFail, TxtOther,
      TxtOf(<<Ip4(IP1)>>),
      TxtOf(<<Q("-", STR_all)>>),
      TxtOf(<<Incl(DomB), Bogus>>),
      TxtOf(<<Redir(DomA)>>),
      TxtOf(Copies(5, STR_a)) }

Emails == { <<"u", "@", "A">>, <<"u", "@", "B">>, <<"u">>, <<"u", "@", "A", "@", "B">> }

NetAnswers == {"fail", "empty", "hit"}

(***************************************************************************)
(* The state machine                                                       *)
(***************************************************************************)

NoRet == [result |-> "", err |-> Nil]
NoForm == [sigil |-> Empty, name |-> Empty, sep |-> "", target |-> Empty,
           prefix |-> Empty]
\* No request is set aside, and no request has run alone.
NoParked == [pc |-> "none", ip |-> Empty, email |-> Empty, id |-> 0, own |-> << >>,
             stack |-> << >>, ret |-> NoRet]
NoSolo == [ret |-> NoRet, builds |-> << >>]
NoReq == [kind |-> "none", ip |-> Empty, email |-> Empty, domain |-> Empty,
          toks |-> << >>, count |-> 0, lookups |-> 0, self |-> 0,
          raw |-> Empty, form |-> NoForm, first |-> "",
          id |-> 0, own |-> << >>, seen |-> 0, solo |-> NoSolo, parked |-> NoParked]

Init ==
    /\ txt \in {[d \in Domains |-> IF d = DomA THEN a ELSE IF d = DomB THEN b ELSE c] :
                    a \in PoolA, b \in PoolB, c \in PoolC}
    /\ net \in NetAnswers
    /\ pc = "idle"
    /\ req = NoReq
    /\ stack = << >>
    /\ builds = << >>
    /\ ret = NoRet

Top == stack[Len(stack)]

\* The builds with the build of out, if it made one, under the inherited count.
Built(out, count) ==
    IF out.b.err = "none" THEN builds ELSE Append(builds, BuildEntry(out.b, count))

\* The request ends with what out returns, or goes on in Test on out's record.
Outcome(out) ==
    \/ /\ out.kind = "ret"
       /\ pc' = "done"
       /\ ret' = [result |-> out.result, err |-> out.err]
       /\ stack' = << >>
    \/ /\ out.kind = "call"
       /\ pc' = "eval"
       /\ ret' = NoRet
       /\ stack' = <<NewFrame(out.b)>>

\* A client calls SPFTest(ip, email).
CallSPFTest(ip, email) ==
    /\ pc = "idle"
    /\ req' = [NoReq EXCEPT !.kind = "SPFTest", !.ip = ip, !.email = email]
    /\ \E out \in {SPFTest(ip, email)} :
           /\ builds' = Built(out, 0)
           /\ Outcome(out)
    /\ UNCHANGED <<txt, net>>

\* The mechanism that the innermost Test evaluates next.
Current == Top.spf.Mechanisms[Top.i]

\* Test is in its loop and has a mechanism to evaluate.
InLoop ==
    /\ pc = "eval"
    /\ Top.res = ""
    /\ Top.i <= Len(Top.spf.Mechanisms)

\* Test goes on with what Evaluate returns for its mechanism.
Resumed(f, o, suberr, sub) ==
    TestLoop(Logged(f, o.result, o.err, suberr, sub), o.result, o.err)

\* Test evaluates the next mechanism: Evaluate returns, or it is an include
\* or a redirect and calls Test on the record it has built.
EvalStep ==
    /\ InLoop
    /\ \E out \in {Evaluate(Current, req.ip, TestCount(Top.spf))} :
           /\ builds' = Built(out, TestCount(Top.spf))
           /\ \/ /\ out.kind = "ret"
                 /\ stack' = [stack EXCEPT ![Len(stack)] = Resumed(Top, out, out.b.err, "")]
              \/ /\ out.kind = "call"
                 /\ Len(stack) < MaxDepth
                 /\ stack' = Append(stack, NewFrame(out.b))
    /\ UNCHANGED <<txt, net, pc, req, ret>>

\* Test has evaluated every mechanism and none matched.
TestExhausted ==
    /\ pc = "eval"
    /\ Top.res = ""
    /\ Top.i > Len(Top.spf.Mechanisms)
    /\ stack' = [stack EXCEPT ![Len(stack)] = TestDefault(Top)]
    /\ UNCHANGED <<txt, net, pc, req, builds, ret>>

\* The caller of the innermost Test.
Caller == stack[Len(stack) - 1]

\* A call of Test returns: to the client, or to the Evaluate that called it,
\* which returns to the loop of the calling Test.
TestReturn ==
    /\ pc = "eval"
    /\ Top.res # ""
    /\ \/ /\ Len(stack) = 1
          /\ pc' = "done"
          /\ ret' = [result |-> Top.res, err |-> Nil]
          /\ UNCHANGED stack
       \/ /\ Len(stack) > 1
          /\ stack' = Append(SubSeq(stack, 1, Len(stack) - 2),
                             Resumed(Caller,
                                     EvaluateAfter(Caller.spf.Mechanisms[Caller.i], Top.res),
                                     Top.berr, Top.res))
          /\ UNCHANGED <<pc, ret>>
    /\ UNCHANGED <<txt, net, req, builds>>

Next ==
    \/ \E ip \in IPs, email \in Emails : CallSPFTest(ip, email)
    \/ EvalStep
    \/ TestExhausted
    \/ TestReturn

Spec == Init /\ [][Next]_vars

(***************************************************************************)
(* Direct construction: a client calls NewSPF with a record text and a     *)
(* lookup count, and Test on the record if there was no error              *)
(***************************************************************************)

\* The largest position at which a generated text names its own domain.
MaxSelfPos == 3

Ip6One == STR_ip6 \o <<":", ":", ":", "1">>

\* The mechanism texts that need a lookup, and those that need none.
LookupToks ==
    <<STR_a, Q("~", STR_mx), Q("?", STR_ptr), WithDomain(STR_exists, DomB),
      Incl(DomB), Redir(DomC)>>
PlainToks == <<Q("-", Ip4(IP2)), Ip6One, Q("~", STR_all)>>

\* n lookup mechanisms, the kinds in turn from the kind rot on, after the
\* first plain mechanisms that need no lookup.
GenToks(plain, n, rot) ==
    SubSeq(PlainToks, 1, plain) \o [j \in 1..n |-> LookupToks[((j - 1 + rot) % 6) + 1]]

\* toks with the mechanism text tok inserted at position pos, or at the end.
InsertAt(toks, pos, tok) ==
    IF pos > Len(toks) THEN Append(toks, tok)
    ELSE SubSeq(toks, 1, pos - 1) \o <<tok>> \o SubSeq(toks, pos, Len(toks))

\* The include of the record's own domain, with and without a sigil.
SelfTok(pos) == IF pos % 2 = 0 THEN Q("-", Incl(DomA)) ELSE Incl(DomA)

InitBuild ==
    /\ txt = [d \in Domains |->
                 IF d = DomA THEN TxtOf(<<Q("-", STR_all)>>)
                 ELSE IF d = DomB THEN TxtOf(<<Ip4(IP1)>>)
                 ELSE TxtOf(<<STR_a, Q("~", STR_all)>>)]
    /\ net \in NetAnswers
    /\ pc = "idle"
    /\ req = NoReq
    /\ stack = << >>
    /\ builds = << >>
    /\ ret = NoRet

\* What the client does with the outcome b of NewSPF.
ClientBuilt(b) == IF b.err # Nil THEN Returns("", b.err, b) ELSE CallsTest(b)

\* A client calls NewSPF(domain, Rec(toks), count) and then Test(ip).
CallNewSPF(ip, domain, toks, count, lookups, self) ==
    /\ pc = "idle"
    /\ req' = [NoReq EXCEPT !.kind = "NewSPF", !.ip = ip, !.domain = domain,
                            !.toks = toks, !.count = count, !.lookups = lookups,
                            !.self = self]
    /\ \E out \in {ClientBuilt(NewSPF(domain, Rec(toks), count))} :
           /\ builds' = Built(out, count)
           /\ Outcome(out)
    /\ UNCHANGED <<txt, net>>

\* The client calls Test(ip) once more on the record that Test has returned
\* for; first keeps what the first call returned.
CallTestAgain ==
    /\ pc = "done"
    /\ req.kind = "NewSPF"
    /\ Len(stack) = 1
    /\ req.first = ""
    /\ req' = [req EXCEPT !.first = ret.result]
    /\ pc' = "eval"
    /\ ret' = NoRet
    /\ stack' = <<NewFrame([spf |-> stack[1].spf, err |-> stack[1].berr])>>
    /\ UNCHANGED <<txt, net, builds>>

NextBuild ==
    \/ \E ip \in IPs, count \in 0..MaxInherit, n \in 0..MaxLookupMechs,
          plain \in {0, 3}, rot \in {0, 3}, self \in 0..MaxSelfPos :
           CallNewSPF(ip, DomA,
                      IF self = 0 THEN GenToks(plain, n, rot)
                      ELSE InsertAt(GenToks(plain, n, rot), self, SelfTok(self)),
                      count, n, self)
    \/ CallTestAgain
    \/ EvalStep
    \/ TestExhausted
    \/ TestReturn

SpecBuild == InitBuild /\ [][NextBuild]_vars

(***************************************************************************)
(* Parsing and rendering: a client calls NewMechanism on a mechanism text, *)
(* or NewSPF on a record text and then Test and SPFString on the record    *)
(***************************************************************************)

\* The longest mechanism text that is drawn from the separator alphabet.
MaxTokLen == 4

\* The sigils, the names, the targets and the prefixes of the generated
\* mechanism texts.
Sigils == {Empty, <<"+">>, <<"-">>, <<"~">>, <<"?">>}
STR_none == <<"n", "o", "n", "e">>
FormNames == MechanismNames \cup {STR_none}
V6One == <<":", ":", "1">>
FormTargets == {Empty, DomB, IP1, V6One}
FormPrefixes == {Empty, <<"2", "4">>, <<"2", "4", "/">>, <<"3", "3">>, <<"x">>}

\* The forms sigil name [sep target] [/prefix] with sep ':' or '='.
Forms ==
    {f \in [sigil : Sigils, name : FormNames, sep : {":", "="}, target : FormTargets,
            prefix : FormPrefixes] :
        f.target = Empty => f.sep = ":"}

\* The mechanism text of a form.
FormText(f) ==
    f.sigil \o f.name
        \o (IF f.target # Empty THEN <<f.sep>> \o f.target ELSE Empty)
        \o (IF f.prefix # Empty THEN <<"/">> \o f.prefix ELSE Empty)

\* Every text of 1 to MaxTokLen characters of a name and the separators.
ShortTexts ==
    UNION {[1..n -> {"a", ":", "/", "=", "-"}] : n \in 1..MaxTokLen}

\* An IPv4 address written as an IPv6 literal, the literals that ip4 and
\* ip6 mechanisms without a prefix are given, and the clients they are
\* tested on.
V6Mapped == <<":", ":", "f", "f", "f", "f", ":">> \o IP1
HostLiterals == {IP1, V6One, V6Mapped}
Candidates == {IP1, IP2, V6One, V6Mapped}

\* The form name:address.
HostForm(name, addr) ==
    [sigil |-> Empty, name |-> name, sep |-> ":", target |-> addr, prefix |-> Empty]

\* The version tokens of the generated record texts.
STR_vspf10 == STR_vspf1 \o <<"0">>
STR_vspf2  == <<"v", "=", "s", "p", "f", "2">>
STR_spf1   == <<"s", "p", "f", "1">>
VersionTokens == {STR_vspf1, STR_vspf10, STR_vspf2, STR_spf1}

\* The mechanism texts that follow the version tokens.
VersionTails ==
    { << >>, <<Q("-", STR_all)>>, <<Ip4(IP1), Q("~", STR_all)>>,
      <<Q("?", Ip4(IP2)), Redir(DomB)>>,
      <<Q("-", STR_all), Bogus>>, <<Ip4(IP1), Bogus, Q("~", STR_all)>> }

\* The record text of a version token and mechanism texts.
RECURSIVE RecOf(_, _)
RecOf(version, toks) ==
    IF toks = << >> THEN version
    ELSE RecOf(version, SubSeq(toks, 1, Len(toks) - 1)) \o <<" ">> \o toks[Len(toks)]

InitParse == InitBuild

\* What a client sees of NewMechanism(str, domain): the mechanism, the
\* error, whether the mechanism is valid and how it is rendered.
Inspected(r) ==
    [result |-> "", err |-> r.err, m |-> r.m, valid |-> Valid(r.m),
     text |-> MechanismSPFString(r.m)]

\* A client calls NewMechanism(str, domain), Valid and SPFString.
CallNewMechanism(str, domain, form) ==
    /\ pc = "idle"
    /\ req' = [NoReq EXCEPT !.kind = "NewMechanism", !.domain = domain,
                            !.toks = <<str>>, !.form = form]
    /\ pc' = "done"
    /\ ret' = Inspected(NewMechanism(str, domain))
    /\ UNCHANGED <<txt, net, stack, builds>>

\* A client calls NewSPF(domain, raw, 0) on the text of a version token and
\* mechanism texts, and then Test(ip).
CallNewSPFText(ip, domain, version, toks, form) ==
    /\ pc = "idle"
    /\ req' = [NoReq EXCEPT !.kind = "NewSPFText", !.ip = ip, !.domain = domain,
                            !.toks = toks, !.raw = RecOf(version, toks),
                            !.form = form]
    /\ \E out \in {ClientBuilt(NewSPF(domain, RecOf(version, toks), 0))} :
           /\ builds' = Built(out, 0)
           /\ Outcome(out)
    /\ UNCHANGED <<txt, net>>

\* A client calls SPFString on the record that Test has returned for.
CallSPFString ==
    /\ pc = "done"
    /\ req.kind = "NewSPFText"
    /\ Len(stack) = 1
    /\ pc' = "rendered"
    /\ ret' = [result |-> ret.result, err |-> ret.err, text |-> SPFString(stack[1].spf)]
    /\ UNCHANGED <<txt, net, req, stack, builds>>

NextParse ==
    \/ \E f \in Forms : CallNewMechanism(FormText(f), DomA, f)
    \/ \E t \in ShortTexts : CallNewMechanism(t, DomA, NoForm)
    \/ \E f \in Forms : CallNewSPFText(IP1, DomA, STR_vspf1, <<FormText(f)>>, f)
    \/ \E t \in ShortTexts : CallNewSPFText(IP1, DomA, STR_vspf1, <<t>>, NoForm)
    \/ \E v \in VersionTokens, toks \in VersionTails :
           CallNewSPFText(IP1, DomA, v, toks, NoForm)
    \/ \E ip \in Candidates, name \in {STR_ip4, STR_ip6}, addr \in HostLiterals :
           CallNewSPFText(ip, DomA, STR_vspf1, <<FormText(HostForm(name, addr))>>,
                          HostForm(name, addr))
    \/ CallSPFString
    \/ EvalStep
    \/ TestExhausted
    \/ TestReturn

SpecParse == InitParse /\ [][NextParse]_vars

(***************************************************************************)
(* Two requests at once: a request runs alone, and then once more while a  *)
(* second request runs, the steps of the two in any order                  *)
(***************************************************************************)

\* The zones of the two requests.
PairZones ==
    { [d \in Domains |->
          IF d = DomA THEN TxtOf(Copies(8, Q("~", STR_a)) \o <<Incl(DomB)>>)
          ELSE IF d = DomB THEN TxtOf(Copies(5, STR_ptr))
          ELSE TxtOf(<<Ip4(IP1)>>)],
      [d \in Domains |->
          IF d = DomA THEN TxtOf(<<Q("-", Incl(DomB)), Incl(DomC), Q("~", STR_all)>>)
          ELSE IF d = DomB THEN TxtOf(<<Redir(DomC)>>)
          ELSE TxtOf(Copies(5, STR_a))],
      [d \in Domains |->
          IF d = DomA THEN TxtOf(<<Incl(DomB), Q("-", STR_all)>>)
          ELSE IF d = DomB THEN TxtOf(<<Incl(DomA)>>)
          ELSE TxtOf(<<Q("-", STR_all)>>)] }

PairEmails == { <<"u", "@", "A">>, <<"u", "@", "B">>, <<"u", "@", "C">> }

InitPair ==
    /\ txt \in PairZones
    /\ net \in NetAnswers
    /\ pc = "idle"
    /\ req = NoReq
    /\ stack = << >>
    /\ builds = << >>
    /\ ret = NoRet

\* The request that ran alone is made once more, as request 1, next to a
\* request 2 that has not started; solo keeps what the run alone returned
\* and built.
StartPair(ip, email) ==
    /\ pc = "done"
    /\ req.kind = "SPFTest"
    /\ req' = [NoReq EXCEPT !.kind = "Pair", !.ip = req.ip, !.email = req.email,
                            !.id = 1,
                            !.solo = [ret |-> ret, builds |-> builds],
                            !.parked = [NoParked EXCEPT !.pc = "start", !.ip = ip,
                                                        !.email = email, !.id = 2]]
    /\ pc' = "start"
    /\ stack' = << >>
    /\ builds' = << >>
    /\ ret' = NoRet
    /\ UNCHANGED <<txt, net>>

\* The request at hand calls SPFTest.
PairCall ==
    /\ pc = "start"
    /\ \E out \in {SPFTest(req.ip, req.email)} :
           /\ builds' = Built(out, 0)
           /\ Outcome(out)
    /\ UNCHANGED <<txt, net, req>>

\* The builds of the request at hand: those it had made when it was last
\* set aside, and those made since it is at hand again.
OwnBuilds == req.own \o SubSeq(builds, req.seen + 1, Len(builds))

\* The record that was built last, if any.
LastBuilt == IF builds = << >> THEN << >> ELSE <<builds[Len(builds)]>>

\* The request at hand is set aside and the other request goes on.  Of the
\* records built so far, the one built last is kept in sight; the request
\* set aside keeps its own.
Switch ==
    /\ req.kind = "Pair"
    /\ req.parked.pc # "done"
    /\ req' = [req EXCEPT !.ip = req.parked.ip, !.email = req.parked.email,
                          !.id = req.parked.id, !.own = req.parked.own,
                          !.seen = Len(LastBuilt),
                          !.parked = [pc |-> pc, ip |-> req.ip, email |-> req.email,
                                      id |-> req.id, own |-> OwnBuilds,
                                      stack |-> stack, ret |-> ret]]
    /\ pc' = req.parked.pc
    /\ stack' = req.parked.stack
    /\ ret' = req.parked.ret
    /\ builds' = LastBuilt
    /\ UNCHANGED <<txt, net>>

NextPair ==
    \/ \E email \in PairEmails : CallSPFTest(IP1, email)
    \/ \E email \in PairEmails : StartPair(IP1, email)
    \/ PairCall
    \/ Switch
    \/ EvalStep
    \/ TestExhausted
    \/ TestReturn

SpecPair == InitPair /\ [][NextPair]_vars

(***************************************************************************)
(* Properties                                                              *)
(***************************************************************************)

\* The positions of the log of the call f of Test at which Evaluate matched.
Matches(f) == {j \in 1..Len(f.log) : f.log[j].err = Nil}

\* The record of the worked example: ip4:1.2.3.4 -all.
ExampleRecord == TxtOf(<<Ip4(IP1), Q("-", STR_all)>>)

\* C1: Test evaluates the mechanisms in record order, one after the other;
\* nothing is evaluated after a mechanism that matched, and the result of
\* Test is the result of that mechanism.  For the record ip4:1.2.3.4 -all
\* the client 1.2.3.4 gets Pass and every other client gets Fail.
C1_FirstMatchWins ==
    /\ \A k \in 1..Len(stack) :
           /\ \A j \in 1..Len(stack[k].log) :
                  /\ stack[k].log[j].i = j
                  /\ j < Len(stack[k].log) => stack[k].log[j].err # Nil
           /\ (stack[k].res # "" /\ Matches(stack[k]) # {})
                  => stack[k].res = stack[k].log[Len(stack[k].log)].result
    /\ (pc = "done" /\ req.kind = "SPFTest" /\ req.email = <<"u", "@", "A">>
            /\ txt[DomA] = ExampleRecord)
           => ret = [result |-> IF req.ip = IP1 THEN Pass ELSE Fail, err |-> Nil]

\* The example's second mechanism governs for the client 9.9.9.9.
C1_Witness ==
    /\ pc = "done" /\ req.kind = "SPFTest" /\ req.email = <<"u", "@", "A">>
    /\ txt[DomA] = ExampleRecord
    /\ req.ip = IP2
    /\ Len(stack[1].log) = 2
    /\ ret.result = Fail

\* C2: a call of Test in which no mechanism matched has evaluated every
\* mechanism of its record and returns Neutral; so does Test on a record
\* without mechanisms.
C2_NoMatchNeutral ==
    /\ \A k \in 1..Len(stack) :
           (stack[k].res # "" /\ Matches(stack[k]) = {})
               => /\ stack[k].res = Neutral
                  /\ Len(stack[k].log) = Len(stack[k].spf.Mechanisms)
    /\ (pc = "done" /\ Len(stack) = 1 /\ Matches(stack[1]) = {})
           => ret = [result |-> Neutral, err |-> Nil]

\* Five mechanisms were evaluated, none matched, and the answer is Neutral.
C2_Witness ==
    /\ pc = "done" /\ Len(stack) = 1
    /\ Len(stack[1].spf.Mechanisms) = 5
    /\ Matches(stack[1]) = {}
    /\ ret.result = Neutral

\* The address has d after its first "@", up to the next "@" or the end.
MailboxAt(email, d) ==
    \E k \in 1..Len(email) :
        /\ email[k] = "@"
        /\ \A j \in 1..(k - 1) : email[j] # "@"
        /\ Len(email) >= k + Len(d)
        /\ SubSeq(email, k + 1, k + Len(d)) = d
        /\ Len(email) = k + Len(d) \/ email[k + Len(d) + 1] = "@"

\* A TXT record of the domain d starts with the version marker.
HasRecord(d) ==
    \E k \in 1..Len(txt[d].records) : HasPrefix(txt[d].records[k], STR_vspf1)

\* C3: SPFTest answers the format error for an address without "@";
\* TempError if the TXT lookup of the domain fails; None and no error if no
\* TXT record has the version marker; PermError and the error of NewSPF if
\* the record cannot be built; and else what Test returns for the record.
C3_EntryOutcomes ==
    (pc = "done" /\ req.kind = "SPFTest") =>
        /\ (\A k \in 1..Len(req.email) : req.email[k] # "@")
               => ret.err = ErrEmailFormat /\ builds = << >>
        /\ \A d \in Domains :
               MailboxAt(req.email, d) =>
                   IF txt[d].err
                   THEN ret = [result |-> TempError, err |-> ErrFailedLookup]
                   ELSE IF ~HasRecord(d)
                   THEN ret = [result |-> None, err |-> Nil]
                   ELSE /\ builds # << >>
                        /\ builds[1].domain = d
                        /\ builds[1].inherited = 0
                        /\ IF builds[1].err # Nil
                           THEN /\ ret = [result |-> PermError, err |-> builds[1].err]
                                /\ stack = << >>
                           ELSE /\ Len(stack) = 1
                                /\ stack[1].spf.Domain = d
                                /\ stack[1].res \in Results
                                /\ ret = [result |-> stack[1].res, err |-> Nil]

\* A record that includes its own domain is answered with PermError.
C3_Witness ==
    /\ pc = "done" /\ req.kind = "SPFTest"
    /\ MailboxAt(req.email, DomA) /\ HasRecord(DomA)
    /\ ret = [result |-> PermError, err |-> ErrIncludeLoop]

\* The number of mechanism texts of the request that need a lookup.
LookupTexts(toks) ==
    Cardinality({j \in 1..Len(toks) : \E l \in 1..Len(LookupToks) : toks[j] = LookupToks[l]})

RECURSIVE TotalLookups(_)
TotalLookups(bs) ==
    IF bs = << >> THEN 0
    ELSE TotalLookups(SubSeq(bs, 1, Len(bs) - 1)) + (bs[Len(bs)].count - bs[Len(bs)].inherited)

\* C5: the lookup count is one counter for the whole request: every build
\* starts from the lookup mechanisms of all records built before it, and a
\* request whose records hold 10 or more of them has a build that fails with
\* ErrMaxCount.
C5_SharedBudget ==
    /\ \A k \in 1..Len(builds) :
           builds[k].inherited = TotalLookups(SubSeq(builds, 1, k - 1))
    /\ (pc = "done" /\ TotalLookups(builds) >= 10)
           => \E k \in 1..Len(builds) : builds[k].err = ErrMaxCount

\* C6: the recursion through include and redirect is cut off by the ceiling
\* of the lookup count: every nested record inherits a count that is larger
\* than that of the record before, so no chain of nested calls of Test is
\* longer than the ceiling.
C6_BudgetCutsRecursion == Len(stack) <= MaxLookups

\* The request's text has an include of the domain the record is built for.
IncludesSelf ==
    \E j \in 1..Len(req.toks) :
        req.toks[j] = Incl(req.domain) \/ req.toks[j] = Q("-", Incl(req.domain))

LogEntries ==
    UNION {{<<k, j>> : j \in 1..Len(stack[k].log)} : k \in 1..Len(stack)}

\* The mechanism that the log entry j of the call k is about.
EntryMechanism(k, j) == stack[k].spf.Mechanisms[stack[k].log[j].i]

\* The call k of Test went on with the next mechanism after its log entry j.
Continues(k, j) ==
    /\ stack[k].log[j].err # Nil
    /\ IF j < Len(stack[k].log)
       THEN stack[k].log[j + 1].i = stack[k].log[j].i + 1
       ELSE stack[k].i = stack[k].log[j].i + 1

\* The call k of Test returned the result of its log entry j at once.
Surfaces(k, j) ==
    /\ stack[k].log[j].err = Nil
    /\ j = Len(stack[k].log)
    /\ stack[k].res = stack[k].log[j].result

\* C8: an include whose record was built without error matches if Test on
\* that record answers Pass or PermError, and that answer is the result of
\* the including record; on every other answer the include does not match
\* and Test goes on with the next mechanism of the including record.
C8_IncludeSuccess ==
    \A e \in LogEntries :
        (EntryMechanism(e[1], e[2]).Name = STR_include
             /\ stack[e[1]].log[e[2]].suberr = Nil) =>
            /\ stack[e[1]].log[e[2]].sub \in Results
            /\ IF stack[e[1]].log[e[2]].sub \in {Pass, PermError}
               THEN /\ Surfaces(e[1], e[2])
                    /\ stack[e[1]].log[e[2]].result = stack[e[1]].log[e[2]].sub
               ELSE Continues(e[1], e[2])

\* An included record answered SoftFail and a later mechanism decided.
C8_Witness ==
    \E e \in LogEntries :
        /\ EntryMechanism(e[1], e[2]).Name = STR_include
        /\ stack[e[1]].log[e[2]].suberr = Nil
        /\ stack[e[1]].log[e[2]].sub = SoftFail
        /\ e[2] < Len(stack[e[1]].log)
        /\ stack[e[1]].res # ""

\* C9: an include whose record NewSPF could not build matches with
\* PermError, the result of the including record, if the error is
\* ErrNoRecord or ErrMaxCount; on every other error it does not match, Test
\* goes on with the next mechanism, and no mechanism of the record that
\* could not be built is evaluated.
C9_IncludeFailure ==
    /\ \A e \in LogEntries :
           (EntryMechanism(e[1], e[2]).Name = STR_include
                /\ stack[e[1]].log[e[2]].suberr # Nil) =>
               IF stack[e[1]].log[e[2]].suberr \in {ErrNoRecord, ErrMaxCount}
               THEN /\ Surfaces(e[1], e[2])
                    /\ stack[e[1]].log[e[2]].result = PermError
               ELSE Continues(e[1], e[2])
    /\ \A k \in 1..Len(stack) : stack[k].berr # Nil => stack[k].log = << >>

FormQualifier ==
    IF req.form.sigil = <<"-">> THEN Fail
    ELSE IF req.form.sigil = <<"~">> THEN SoftFail
    ELSE IF req.form.sigil = <<"?">> THEN Neutral
    ELSE Pass

\* The request is a call of NewMechanism on the text of a form.
MechanismRequest == pc = "done" /\ req.kind = "NewMechanism" /\ req.form # NoForm

\* The request is a call of NewSPF on a record with the text of a form as
\* its only mechanism, and Test on the record has evaluated it.
FormEvaluated ==
    /\ req.kind = "NewSPFText" /\ req.form # NoForm
    /\ Len(stack) >= 1
    /\ Len(stack[1].log) = 1

\* C11: NewMechanism gives a mechanism text with the sigil '-' the result
\* Fail, with '~' SoftFail, with '+' Pass, with '?' Neutral and without a
\* sigil Pass, and parses the text after the sigil; a mechanism all, ip4,
\* ip6, a, mx, ptr or exists that matches returns that result.
C11_Qualifier ==
    /\ (MechanismRequest /\ ret.err = Nil) =>
           /\ ret.m.Result = FormQualifier
           /\ ret.m.Name = req.form.name
    /\ (FormEvaluated /\ stack[1].log[1].err = Nil
            /\ req.form.name \in MechanismNames \ {STR_include, STR_redirect}) =>
           stack[1].log[1].result = FormQualifier

\* The mechanism ~a matched and the record answered SoftFail.
C11_Witness ==
    /\ FormEvaluated
    /\ req.form.sigil = <<"~">> /\ req.form.name = STR_a /\ req.form.target = Empty
    /\ stack[1].log[1].err = Nil
    /\ stack[1].res = SoftFail

\* The form of the request has no empty segment and no separator at its end:
\* name, name/prefix, name:domain, name:domain/prefix or tag=value.
CleanForm ==
    /\ req.form.prefix \in {Empty, <<"2", "4">>}
    /\ req.form.sep = "=" => req.form.prefix = Empty

\* C12: parsing name:domain/prefix gives the name, the domain and the
\* prefix; name:domain the name and the domain; name/prefix the name, the
\* domain of the record and the prefix; a bare name the name and the domain
\* of the record; tag=value the tag and the value.  The domain of the
\* record is taken exactly if the text has no ':' and no '=' segment.
C12_ParseForms ==
    (MechanismRequest /\ CleanForm) =>
        /\ ret.err = Nil
        /\ ret.m.Name = req.form.name
        /\ ret.m.Prefix = req.form.prefix
        /\ ret.m.Domain = IF req.form.target = Empty THEN req.domain ELSE req.form.target
        /\ ret.m.Domain = req.domain <=> req.form.target = Empty

\* mx/24 is parsed with the domain of the record.
C12_Witness ==
    /\ MechanismRequest /\ CleanForm
    /\ req.form.name = STR_mx /\ req.form.target = Empty
    /\ ret.m.Domain = DomA
    /\ ret.m.Prefix = <<"2", "4">>

\* A separator of the text t is its last character or stands before another
\* separator.
EmptySegment(t) ==
    \E k \in 1..Len(t) :
        /\ t[k] \in {":", "/", "="}
        /\ k = Len(t) \/ t[k + 1] \in {":", "/", "="}

\* The request has one mechanism text, with an empty segment that is not a
\* part of the address ::1.
EmptySegmentRequest ==
    /\ Len(req.toks) = 1
    /\ EmptySegment(req.toks[1])
    /\ req.form.target \notin {V6One, V6Mapped}

\* C13: NewMechanism rejects every mechanism text in which a separator is
\* followed by nothing or by another separator with ErrInvalidMechanism, a
\* separator at the end of a prefix included, and NewSPF fails on a record
\* text with such a mechanism text.
C13_EmptySegmentRejected ==
    /\ (pc = "done" /\ req.kind = "NewMechanism" /\ EmptySegmentRequest)
           => ret.err = ErrInvalidMechanism
    /\ (req.kind = "NewSPFText" /\ EmptySegmentRequest)
           => builds # << >> /\ builds[1].err = ErrInvalidMechanism

\* The text t without a '+' at its front.
PlusFree(t) == IF t # Empty /\ Head(t) = "+" THEN Tail(t) ELSE t

\* The mechanism texts of the request are clean forms or the texts of
\* VersionTails, and none has the sigil '+' or is a bare all.
PlainTexts ==
    /\ (req.form # NoForm /\ CleanForm) \/ req.toks \in VersionTails
    /\ \A j \in 1..Len(req.toks) : Head(req.toks[j]) # "+" /\ req.toks[j] # STR_all

\* C14: rendering undoes parsing: SPFString of the mechanism that
\* NewMechanism parses from a valid text of one of the forms is that text,
\* up to the sigil '+', and SPFString of the record that NewSPF builds from
\* a valid record text is that text.
C14_RoundTrip ==
    /\ (MechanismRequest /\ CleanForm /\ ret.err = Nil /\ ret.valid)
           => PlusFree(ret.text) = PlusFree(req.toks[1])
    /\ (pc = "rendered" /\ PlainTexts) => ret.text = req.raw

\* The first token of the request's record text is the marker v=spf1.
MarkerFirst ==
    req.raw = STR_vspf1 \/ HasPrefix(req.raw, STR_vspf1 \o <<" ">>)

\* C15: NewSPF succeeds only on a text whose version token is v=spf1; on a
\* text with any other first token, v=spf10 included, it fails with the
\* error for an invalid record, and every record it builds has the Version
\* spf1.
C15_VersionMarker ==
    (req.kind = "NewSPFText" /\ builds # << >>) =>
        /\ builds[1].err = Nil => MarkerFirst
        /\ ~MarkerFirst => builds[1].err = ErrInvalidSPF
        /\ (builds[1].err = Nil /\ Len(stack) >= 1)
               => stack[1].spf.Version = STR_spf1

\* The target of the request's form is an address of the family that the
\* form's name, ip4 or ip6, asks for.
FamilyFits ==
    \/ req.form.name = STR_ip4 /\ req.form.target = IP1
    \/ req.form.name = STR_ip6 /\ req.form.target = V6One

\* C16: Valid accepts an ip4 mechanism only with an IPv4 address as its
\* domain and an ip6 mechanism only with an IPv6 address, and NewSPF fails
\* on a record with an ip4 or ip6 mechanism whose domain is an address of
\* the other family or no address.
C16_AddressFamily ==
    (req.form # NoForm /\ req.form.name \in {STR_ip4, STR_ip6} /\ ~FamilyFits) =>
        /\ (pc = "done" /\ req.kind = "NewMechanism" /\ ret.err = Nil) => ~ret.valid
        /\ (req.kind = "NewSPFText" /\ builds # << >>)
               => builds[1].err = ErrInvalidMechanism

\* The request's form has a name that needs a target and names none.
TargetMissing ==
    /\ req.form # NoForm
    /\ req.form.name \in {STR_ip4, STR_ip6, STR_include, STR_exists, STR_redirect}
    /\ req.form.target = Empty

\* C17: an ip4, ip6, include, exists or redirect mechanism whose text names
\* no target is invalid, and NewSPF fails on a record with such a text; the
\* mechanisms a, mx, ptr and all take the record's domain.
C17_TargetRequired ==
    /\ TargetMissing =>
           /\ (pc = "done" /\ req.kind = "NewMechanism") => (ret.err # Nil \/ ~ret.valid)
           /\ (req.kind = "NewSPFText" /\ builds # << >>) => builds[1].err # Nil
    /\ (MechanismRequest /\ CleanForm /\ req.form.target = Empty
            /\ req.form.name \in {STR_a, STR_mx, STR_ptr, STR_all})
           => ret.err = Nil /\ ret.valid /\ ret.m.Domain = req.domain

\* A mechanism text of the request has a name that is no mechanism name: it
\* is the form's text with the name none, or -none among other texts.
UnknownKind ==
    \/ req.form # NoForm /\ req.form.name = STR_none
    \/ \E j \in 1..Len(req.toks) : req.toks[j] = Bogus

NestedBuilds(k) == SubSeq(builds, 2 + k * ((Len(builds) - 1) \div 2),
                          1 + (k + 1) * ((Len(builds) - 1) \div 2))

Separators(t) == {k \in 1..Len(t) : t[k] \in {":", "/", "="}}

\* The position of the first separator of the text t, which has one.
FirstSeparator(t) == CHOOSE k \in Separators(t) : \A j \in Separators(t) : k <= j

\* The request is a call of NewMechanism on a text of the separator
\* alphabet that has a separator, and the call returned a mechanism.
SeparatorRequest ==
    /\ pc = "done" /\ req.kind = "NewMechanism" /\ req.form = NoForm
    /\ Separators(SigilRest(req.toks[1])) # {}
    /\ ret.err = Nil

\* The reading of the text t that its first separator, at position k,
\* selects: the name is the text before it; after '/' the domain is the
\* domain of the record; after ':' the domain ends at the next '/', or at
\* the end of the text.
FirstSeparatorReading(t, k, m) ==
    /\ m.Name = SubSeq(t, 1, k - 1)
    /\ t[k] = "/" => m.Domain = req.domain /\ m.Prefix = SubSeq(t, k + 1, Len(t))
    /\ (t[k] = ":" /\ \A j \in Separators(t) : t[j] # "/")
           => m.Domain = SubSeq(t, k + 1, Len(t)) /\ m.Prefix = Empty
    /\ t[k] = "=" => m.Domain = SubSeq(t, k + 1, Len(t))

\* C21: parseMechanism splits a mechanism text at the separator that comes
\* first in it among ':', '/' and '=': the name is the text before that
\* separator; a text whose first separator is ':' is read as name:domain,
\* one whose first separator is '/' as name/prefix with the domain of the
\* record, and only one whose first separator is '=' as tag=value.
C21_FirstSeparator ==
    SeparatorRequest =>
        FirstSeparatorReading(SigilRest(req.toks[1]),
                              FirstSeparator(SigilRest(req.toks[1])), ret.m)

\* The record of the request was built without an error.
RecordBuilt ==
    /\ req.kind = "NewSPFText"
    /\ builds # << >> /\ builds[1].err = Nil
    /\ Len(stack) >= 1

\* The mechanism m is no ip4 or ip6, or its address and prefix make a
\* network.
RangeBuilds(m) ==
    m.Name \in {STR_ip4, STR_ip6} => ~networkCIDR(m.Domain, m.Prefix).err

\* C22: validation is done when the record is built: in a record that
\* NewSPF has built, the address and the prefix of every ip4 and ip6
\* mechanism make a network, so that a prefix that is no number or is too
\* long for the family fails the build and is never passed over as a
\* mechanism that does not match.
C22_ValidatedAtConstruction ==
    RecordBuilt =>
        \A k \in 1..Len(stack[1].spf.Mechanisms) : RangeBuilds(stack[1].spf.Mechanisms[k])

\* The record of the request has one mechanism, an ip4 or ip6 with an
\* address and no prefix, and Test has evaluated it.
HostRouteRequest ==
    /\ RecordBuilt
    /\ req.form # NoForm
    /\ req.form.name \in {STR_ip4, STR_ip6}
    /\ req.form.prefix = Empty
    /\ Len(stack[1].log) = 1

\* The mask of the full width of the family that the literal addr is
\* written in: 32 bits for a dotted quad, 128 bits for an IPv6 literal.
FullMask(addr) ==
    IF parseIPv4(addr) # NilIP THEN CIDRMask(32, 32) ELSE CIDRMask(128, 128)

\* The network n is the host route of the literal addr.
HostRoute(n, addr) == ~n.err /\ n.network.Mask = FullMask(addr)

\* C23: networkCIDR with an empty prefix makes a host route: a mask of 32
\* bits for an IPv4 literal and of 128 bits for an IPv6 literal, one that
\* holds an IPv4 address included, so that the mechanism covers a client
\* exactly if the client is the address.
C23_HostRoute ==
    HostRouteRequest =>
        /\ HostRoute(networkCIDR(req.form.target, Empty), req.form.target)
        /\ stack[1].log[1].err = Nil <=> ParseIP(req.ip) = ParseIP(req.form.target)

\* The log entry j of the call k is about an a, mx, ptr or exists.
NameLookupEntry(k, j) ==
    EntryMechanism(k, j).Name \in {STR_a, STR_mx, STR_ptr, STR_exists}

\* C24: when the resolver fails, an a, mx, ptr or exists mechanism returns
\* no TempError and no PermError and does not end the evaluation: it does
\* not match and Test goes on with the next mechanism, just as when the
\* lookups have no answers.
C24_ResolverFailure ==
    \A e \in LogEntries :
        (net \in {"fail", "empty"} /\ NameLookupEntry(e[1], e[2])) =>
            /\ stack[e[1]].log[e[2]].result = None
            /\ stack[e[1]].log[e[2]].err = ErrNoMatch
            /\ Continues(e[1], e[2])

\* With every lookup failing, a, mx, ptr and exists:B were passed over and
\* the fifth mechanism, -ip4:9.9.9.9, decided.
C24_Witness ==
    /\ net = "fail" /\ pc = "done" /\ req.kind = "SPFTest"
    /\ Len(stack) = 1 /\ Len(stack[1].log) = 5
    /\ \A j \in 1..4 : NameLookupEntry(1, j) /\ stack[1].log[j].err = ErrNoMatch
    /\ EntryMechanism(1, 4).Name = STR_exists
    /\ ret.result = Fail

\* The number of the mechanisms a, mx, ptr, exists, include and redirect
\* among mechs.
LookupCount(mechs) ==
    Cardinality({j \in 1..Len(mechs) : IsLookupMechanism(mechs[j].Name)})

\* The lookup count of the record whose evaluation built the record of the
\* call k of Test; SPFTest builds the first record with the count 0.
InheritedBy(k) == IF k = 1 THEN 0 ELSE stack[k - 1].spf.Count

\* The record that was built last was built by the Test on the record s.
LastBuiltFrom(s) ==
    builds[Len(builds)].inherited = s.Count

\* C25: the lookup count kept in a record that NewSPF has built is the
\* count it was given plus the number of its own a, mx, ptr, exists,
\* include and redirect mechanisms; every record built while that record's
\* include and redirect mechanisms are evaluated is given this count; so
\* the count never goes down along a chain of includes and redirects, and
\* no record that was built without error has a count of 10 or more.
C25_StoredBudget ==
    /\ \A k \in 1..Len(stack) :
           stack[k].berr = Nil =>
               /\ stack[k].spf.Count = InheritedBy(k) + LookupCount(stack[k].spf.Mechanisms)
               /\ stack[k].spf.Count >= InheritedBy(k)
               /\ stack[k].spf.Count < 10
    /\ (builds # << >> /\ builds[Len(builds)].depth \in 1..Len(stack))
           => LastBuiltFrom(stack[builds[Len(builds)].depth].spf)
    /\ \A j \in 1..Len(builds) :
           builds[j].err = Nil
               => builds[j].inherited <= builds[j].count /\ builds[j].count < 10

\* A redirects to B, B to C, and C has five a: the records hold the counts
\* 1, 2 and 7.
C25_Witness ==
    /\ req.kind = "SPFTest"
    /\ Len(stack) = 3
    /\ \A k \in 1..3 : stack[k].berr = Nil
    /\ stack[1].spf.Count = 1 /\ stack[2].spf.Count = 2 /\ stack[3].spf.Count = 7
    /\ builds[3].inherited = 2 /\ builds[3].count = 7

\* The calls of Test in progress that have their result.
Answered == {k \in 1..Len(stack) : stack[k].res # ""}

\* The mechanism that gave the call k of Test its result has one of names;
\* a call that no mechanism matched has none.
DecidedBy(k, names) ==
    /\ stack[k].log # << >>
    /\ stack[k].log[Len(stack[k].log)].err = Nil
    /\ EntryMechanism(k, Len(stack[k].log)).Name \in names

\* The redirect that decided the call k found no answer to the lookup of
\* its record, or the Test it called answered TempError.
LookupFailedBelow(k) ==
    \/ stack[k].log[Len(stack[k].log)].suberr = ErrFailedLookup
    \/ stack[k].log[Len(stack[k].log)].sub = TempError

\* C26: Test never returns None: its result is Pass, Fail, SoftFail,
\* Neutral, TempError or PermError; TempError comes only from a redirect
\* under which the lookup of a record failed, PermError only from an
\* include or a redirect; the None that Evaluate returns with ErrNoMatch
\* stays inside Test.
C26_TestResults ==
    /\ \A k \in Answered :
           /\ stack[k].res \in {Pass, Fail, SoftFail, Neutral, TempError, PermError}
           /\ stack[k].res = TempError
                  => DecidedBy(k, {STR_redirect}) /\ LookupFailedBelow(k)
           /\ stack[k].res = PermError
                  => DecidedBy(k, {STR_include, STR_redirect})
    /\ \A e \in LogEntries :
           stack[e[1]].log[e[2]].result = None
               => stack[e[1]].log[e[2]].err = ErrNoMatch /\ Continues(e[1], e[2])

\* The record redirects, the lookup of the record it redirects to fails,
\* and Test answers TempError.
C26_Witness ==
    /\ pc = "done" /\ req.kind = "SPFTest"
    /\ Len(stack) = 1
    /\ stack[1].res = TempError /\ ret.result = TempError
    /\ DecidedBy(1, {STR_redirect})
    /\ stack[1].log[Len(stack[1].log)].suberr = ErrFailedLookup
    /\ ret.err = Nil

====
